---- MODULE Spec2Model ----
(***************************************************************************)
(* llmcommit: the generation-and-selection pipeline of                     *)
(*   src/src/blueprint/cli.py, commit_generator.py and ai_service.py.      *)
(*                                                                         *)
(* A Python str is a sequence of one-character strings, so that strip,     *)
(* startswith, split, slicing and f-string formatting are computed as the  *)
(* code computes them.                                                     *)
(***************************************************************************)
EXTENDS Integers, Sequences, FiniteSets, TLC

VARIABLES
    \* ---- harness of parse_commit_messages (ParseSpec)
    p_family,          \* the family of lines the response is assembled from
    p_lines,           \* the lines of the response text, in order
    p_pc,              \* "build" | "parsed"
    p_messages,        \* the list parse_commit_messages returned
    \* ---- harness of select_message_with_fzf (SelSpec)
    s_messages,        \* the caller's list (the call changes it in place)
    s_use_num,         \* use_num
    s_given,           \* the candidates as the caller passed them (history)
    s_pc,              \* "ready" | "done"
    s_fzf,             \* what the chooser process returned
    s_result,          \* what the call returned (or the exception it raised)
    \* ---- one run of main() (Spec): the environment
    repo,              \* what the two git diff queries return
    client,            \* the class the name AIService is bound to
    args_ollama,       \* args.ollama
    args_num,          \* args.num
    \* ---- one run of main(): the program
    pc,                \* "start" | "generate" | "select" | "branch" | "exit"
    diff,              \* main's diff
    commit_messages,   \* main's commit_messages
    selected_message,  \* main's selected_message
    exit_code,         \* the process's exit status (NoStatus while it runs)
    printed,           \* the diagnostics printed so far
    \* ---- one run of main(): what happened (history)
    n_diff,            \* calls of get_git_diff
    prompts,           \* the prompts posted to the backend
    reply,             \* what the backend answers the last generation attempt
    attempts,          \* per generation attempt: the size of its CandidateSet
    last_set,          \* the CandidateSet the parser returned last
    shown,             \* the lines handed to the chooser last
    fzf,               \* what the chooser returned last
    n_regenerate,      \* selector invocations that returned "regenerate"
    commits,           \* the messages create_commit was called with
    \* ---- one call of get_git_diff (DiffSpec)
    g_repo,            \* what the two git diff queries return
    g_max_chars,       \* max_chars
    g_pc,              \* "ready" | "done"
    g_queries,         \* the git diff queries the call made
    g_result           \* what the call returned (or the exception it raised)

parseVars == <<p_family, p_lines, p_pc, p_messages>>
selVars == <<s_messages, s_use_num, s_given, s_pc, s_fzf, s_result>>
envVars == <<repo, client, args_ollama, args_num>>
progVars == <<pc, diff, commit_messages, selected_message, exit_code, printed>>
histVars == <<n_diff, prompts, reply, attempts, last_set, shown, fzf,
              n_regenerate, commits>>
runVars == <<envVars, progVars, histVars>>
gitVars == <<g_repo, g_max_chars, g_pc, g_queries, g_result>>
vars == <<parseVars, selVars, runVars, gitVars>>

(***************************************************************************)
(* Bounds of the model (not program constants).                            *)
(***************************************************************************)
\* lines a response text is assembled from in ParseSpec
MaxLines == 4
\* entries of a candidate list handed to the selector in SelSpec
MaxCands == 3
\* characters of a diff text, and the largest max_chars, in DiffSpec
MaxDiffLen == 3
MaxDiffChars == 4
\* model queries of one run (the regenerate loop itself is unbounded)
MaxQueries == 3

\* Python values a variable can hold besides a list: None, a str, and (as the
\* result of a call) an exception that left the call
PyNone == [t |-> "None", v |-> <<>>]
PyStr(s) == [t |-> "str", v |-> s]
PyRaise(e) == [t |-> e, v |-> <<>>]

(***************************************************************************)
(* str primitives                                                          *)
(***************************************************************************)
\* the characters str.strip() removes that the model's texts can contain
Whitespace == {" ", "\n", "\t", "\r"}

RECURSIVE LStrip(_)
LStrip(s) ==
    IF s # <<>> /\ Head(s) \in Whitespace THEN LStrip(Tail(s)) ELSE s

RECURSIVE RStrip(_)
RStrip(s) ==
    IF s # <<>> /\ s[Len(s)] \in Whitespace
    THEN RStrip(SubSeq(s, 1, Len(s) - 1))
    ELSE s

\* s.strip()
Strip(s) == RStrip(LStrip(s))

\* s.startswith(p)
StartsWith(s, p) == Len(s) >= Len(p) /\ SubSeq(s, 1, Len(p)) = p

\* s.endswith(p)
EndsWith(s, p) ==
    Len(s) >= Len(p) /\ SubSeq(s, Len(s) - Len(p) + 1, Len(s)) = p

\* s.find(sep): the first index (1-based) at which sep occurs in s, 0 if none
Find(s, sep) ==
    LET hits == {i \in 1..(Len(s) - Len(sep) + 1) :
                    SubSeq(s, i, i + Len(sep) - 1) = sep}
    IN  IF hits = {} THEN 0 ELSE CHOOSE i \in hits : \A j \in hits : i <= j

\* s.split(sep, 1): one or two pieces, cut at the first occurrence of sep
Split1(s, sep) ==
    LET i == Find(s, sep)
    IN  IF i = 0 THEN <<s>>
        ELSE <<SubSeq(s, 1, i - 1), SubSeq(s, i + Len(sep), Len(s))>>

\* s.split(sep): every piece
RECURSIVE SplitAll(_, _)
SplitAll(s, sep) ==
    LET i == Find(s, sep)
    IN  IF i = 0 THEN <<s>>
        ELSE <<SubSeq(s, 1, i - 1)>>
             \o SplitAll(SubSeq(s, i + Len(sep), Len(s)), sep)

\* sep.join(parts)
RECURSIVE Join(_, _)
Join(parts, sep) ==
    IF parts = <<>> THEN <<>>
    ELSE IF Len(parts) = 1 THEN parts[1]
    ELSE parts[1] \o sep \o Join(Tail(parts), sep)

Digits == <<"0", "1", "2", "3", "4", "5", "6", "7", "8", "9">>

\* str(n) for n >= 0, as an f-string renders an int
RECURSIVE IntToStr(_)
IntToStr(n) ==
    IF n < 10 THEN <<Digits[n + 1]>>
    ELSE IntToStr(n \div 10) \o <<Digits[(n % 10) + 1]>>

(***************************************************************************)
(* parse_commit_messages (commit_generator.py 101-129)                     *)
(***************************************************************************)
\* line.startswith(("1.", "2.", "3."))
NumberedPrefixes == {<<"1", ".">>, <<"2", ".">>, <<"3", ".">>}

\* mutant: the prefix test also takes "4."
HasNumberedPrefixUpTo4(line) ==
    \E p \in NumberedPrefixes \cup {<<"4", ".">>} : StartsWith(line, p)

HasNumberedPrefix(line) == \E p \in NumberedPrefixes : StartsWith(line, p)

\* lines 123-124: message[1:-1] when it starts and ends with a single quote
StripQuotes(message) ==
    IF StartsWith(message, <<"'">>) /\ EndsWith(message, <<"'">>)
    THEN SubSeq(message, 2, Len(message) - 1)
    ELSE message

\* lines 121-124: the candidate an accepted (already stripped) line yields
ExtractMessage(line) == StripQuotes(Strip(Split1(line, <<".">>)[2]))

\* mutant: the candidates are collected in reverse order of the lines
RECURSIVE ParseLinesReversed(_)
ParseLinesReversed(lines) ==
    IF lines = <<>> THEN <<>>
    ELSE LET line == Strip(Head(lines))
         IN  ParseLinesReversed(Tail(lines))
             \o (IF HasNumberedPrefix(line) THEN <<ExtractMessage(line)>>
                 ELSE <<>>)

\* lines 114-126: the loop over response.split("\n")
RECURSIVE ParseLines(_)
ParseLines(lines) ==
    IF lines = <<>> THEN <<>>
    ELSE LET line == Strip(Head(lines))
         IN  (IF HasNumberedPrefix(line) THEN <<ExtractMessage(line)>>
              ELSE <<>>)
             \o ParseLines(Tail(lines))

parse_commit_messages(response) == ParseLines(SplitAll(response, <<"\n">>))

(***************************************************************************)
(* select_message_with_fzf (commit_generator.py 132-205)                   *)
(***************************************************************************)
Chars_RegenerateMessages ==
    <<"R", "e", "g", "e", "n", "e", "r", "a", "t", "e", " ",
      "m", "e", "s", "s", "a", "g", "e", "s">>
Chars_regenerate == <<"r", "e", "g", "e", "n", "e", "r", "a", "t", "e">>

\* line 187: fzf's exit status when the user pressed ESC
CancelExitCode == 130

\* mutant: the regenerate entry is put in front of the candidates
VisibleListRegenerateFirst(messages, use_num) ==
    LET inserted == <<Chars_RegenerateMessages>> \o messages
    IN  IF use_num
        THEN [i \in 1..Len(inserted) |->
                 IntToStr(i) \o <<".", " ">> \o inserted[i]]
        ELSE inserted

\* lines 153, 169-171: the list after messages.append("Regenerate messages")
\* and, in numeric mode, messages[i] = f"{i+1}. {msg}"; it is both the new
\* content of the caller's list and the lines written to fzf's stdin
VisibleList(messages, use_num) ==
    LET appended == Append(messages, Chars_RegenerateMessages)
    IN  IF use_num
        THEN [i \in 1..Len(appended) |->
                 IntToStr(i) \o <<".", " ">> \o appended[i]]
        ELSE appended

\* lines 187-201: the value returned for the chooser's exit status and stdout
SelectionOf(use_num, returncode, stdout) ==
    IF returncode = CancelExitCode THEN PyNone
    ELSE LET selected == Strip(stdout)
         IN  IF \/ selected = Chars_RegenerateMessages
                \/ selected = <<"4", ".", " ">> \o Chars_RegenerateMessages
             THEN PyStr(Chars_regenerate)
             ELSE IF use_num /\ selected # <<>>
             THEN LET parts == Split1(selected, <<".", " ">>)
                  IN  IF Len(parts) < 2 THEN PyRaise("IndexError")
                      ELSE PyStr(parts[2])
             ELSE PyStr(selected)

\* lines 181-186: what the chooser process can return for the lines it was
\* given: an exit status, and on stdout nothing or one of the lines (idx is
\* the position of that line, 0 for none)
FzfOutcomes(lines) ==
    { [returncode |-> rc, idx |-> i,
       stdout |-> IF i = 0 THEN <<>> ELSE lines[i] \o <<"\n">>] :
         rc \in {0, 1, CancelExitCode}, i \in 0..Len(lines) }

(***************************************************************************)
(* get_git_diff (commit_generator.py 11-45)                                *)
(***************************************************************************)
\* a git diff query that ended with a non-zero status (CalledProcessError)
GitError == PyRaise("CalledProcessError")

\* line 11: the default of max_chars, which main's call (cli.py 50) leaves
DefaultDiffMaxChars == 5000

\* the git executable is not on the PATH: check_output raises
\* FileNotFoundError, which is no CalledProcessError
GitMissing == PyRaise("FileNotFoundError")

\* mutant: the slice is one character too long
TruncateKeepingOneMore(text, max_chars) ==
    SubSeq(text, 1, IF Len(text) < max_chars + 1 THEN Len(text)
                    ELSE max_chars + 1)

\* line 41: diff[:max_chars]; a negative bound counts from the end
Truncate(text, max_chars) ==
    IF max_chars < 0
    THEN SubSeq(text, 1, Len(text) + max_chars)
    ELSE SubSeq(text, 1, IF Len(text) < max_chars THEN Len(text)
                         ELSE max_chars)

\* lines 29-31 and 32-36: the queries a call makes, "--cached" for the staged
\* diff and "" for the unstaged one, which is asked for only after the staged
\* query returned the empty string
GitQueries(r) ==
    IF r.staged = PyStr(<<>>) THEN << "--cached", "" >> ELSE << "--cached" >>

\* lines 27-45: r gives the outcome of the staged and of the unstaged query;
\* the result is the diff, SystemExit (status 1, lines 42-45) when a query
\* that is made ends with an error status, or the FileNotFoundError that
\* passes the except clause
get_git_diff(r, max_chars) ==
    LET last == IF Len(GitQueries(r)) = 1 THEN r.staged ELSE r.unstaged
    IN  IF last = GitError THEN PyRaise("SystemExit")
        ELSE IF last = GitMissing THEN GitMissing
        ELSE PyStr(Truncate(last.v, max_chars))

(***************************************************************************)
(* AIService (ai_service.py)                                               *)
(***************************************************************************)
\* lines 14-31: __init__(self, service_type, model=None) called with the
\* keyword arguments kw
AIService_init(service_type, kw) ==
    IF ~(kw \subseteq {"model"}) THEN PyRaise("TypeError")
    ELSE IF service_type \notin {"ollama", "jan"} THEN PyRaise("ValueError")
    ELSE PyNone

\* the ModelClient of the specification (4.3): a client that is constructed
\* from the configuration, debug flag included, and only fails in query
ModelClient_init(service_type, kw) ==
    IF service_type \notin {"ollama", "jan"} THEN PyRaise("ValueError")
    ELSE PyNone

\* lines 64-69: requests.post, raise_for_status, json().get("response", "")
query_ollama(r) ==
    IF r.kind # "json" THEN PyRaise("Exception")
    ELSE IF r.has THEN PyStr(r.text) ELSE PyStr(<<>>)

\* lines 91-96: requests.post, raise_for_status,
\* json()["choices"][0]["message"]["content"]
query_jan(r) ==
    IF r.kind # "json" THEN PyRaise("Exception")
    ELSE IF r.has THEN PyStr(r.text) ELSE PyRaise("Exception")

\* lines 45-50
AIService_query(service_type, r) ==
    IF service_type = "ollama" THEN query_ollama(r)
    ELSE IF service_type = "jan" THEN query_jan(r)
    ELSE PyRaise("ValueError")

(***************************************************************************)
(* query_ai_service, generate_commit_messages (commit_generator.py)        *)
(***************************************************************************)
\* lines 81-85: AIService(service_type, model=..., debug=debug), with the
\* class the name AIService is bound to
Construct(cls, service_type) ==
    IF cls = "ai_service.AIService"
    THEN AIService_init(service_type, {"model", "debug"})
    ELSE ModelClient_init(service_type, {"model", "debug"})

\* mutant: an exception of the client is logged and an empty response returned
query_ai_service_swallowing(cls, service_type, r) ==
    IF Construct(cls, service_type) # PyNone
    THEN [posted |-> FALSE, result |-> PyStr(<<>>)]
    ELSE LET response == AIService_query(service_type, r)
         IN  [posted |-> TRUE,
              result |-> IF response.t = "str" THEN response
                         ELSE PyStr(<<>>)]

\* lines 72-98: the response text, or SystemExit(1) after any exception;
\* posted tells whether the request reached the backend
query_ai_service(cls, service_type, r) ==
    IF Construct(cls, service_type) # PyNone
    THEN [posted |-> FALSE, result |-> PyRaise("SystemExit")]
    ELSE LET response == AIService_query(service_type, r)
         IN  [posted |-> TRUE,
              result |-> IF response.t = "str" THEN response
                         ELSE PyRaise("SystemExit")]

\* lines 256-262: the prompt rendered from the diff and the character budget
Prompt(d, max_chars) == [diff |-> d, max_chars |-> max_chars]

\* lines 265-276: posted, and the parsed list or SystemExit
generate_commit_messages(cls, service_type, r) ==
    LET q == query_ai_service(cls, service_type, r)
    IN  [posted |-> q.posted,
         result |-> IF q.result.t = "str"
                    THEN [t |-> "list", v |-> parse_commit_messages(q.result.v)]
                    ELSE q.result]

(***************************************************************************)
(* The environment of a run: repository contents and backend replies.      *)
(***************************************************************************)
\* "diff --git a/x.py ...\n+print(1)\n"
Chars_ScenarioDiff ==
    <<"d", "i", "f", "f", " ", "-", "-", "g", "i", "t", " ", "a", "/",
      "x", ".", "p", "y", " ", ".", ".", ".", "\n", "+", "p", "r", "i",
      "n", "t", "(", "1", ")", "\n">>
\* "+y\n"
Chars_OtherDiff == <<"+", "y", "\n">>

Chars_AddPrintStatement ==
    <<"A", "d", "d", " ", "p", "r", "i", "n", "t", " ", "s", "t", "a",
      "t", "e", "m", "e", "n", "t">>
Chars_IntroduceDebugOutput ==
    <<"I", "n", "t", "r", "o", "d", "u", "c", "e", " ", "d", "e", "b",
      "u", "g", " ", "o", "u", "t", "p", "u", "t">>
Chars_InsertPrintCall ==
    <<"I", "n", "s", "e", "r", "t", " ", "p", "r", "i", "n", "t", " ",
      "c", "a", "l", "l">>

\* "1. Add print statement\n2. Introduce debug output\n3. Insert print call\n"
Chars_ScenarioResponse ==
    <<"1", ".", " ">> \o Chars_AddPrintStatement \o <<"\n">>
    \o <<"2", ".", " ">> \o Chars_IntroduceDebugOutput \o <<"\n">>
    \o <<"3", ".", " ">> \o Chars_InsertPrintCall \o <<"\n">>

\* the response texts the backend can hold: the scenario's three lines,
\* three other lines, no numbered line, one numbered line, a bare "1."
Responses ==
    { Chars_ScenarioResponse,
      <<"1", ".", " ", "X", "\n", "2", ".", " ", "Y", "\n",
        "3", ".", " ", "Z">>,
      <<"S", "o", "r", "r", "y">>,
      <<"1", ".", " ", "A">>,
      <<"1", ".", "\n", "2", ".", " ", "B">> }

\* what a POST to the backend can end in: no connection, a non-success
\* status, a body that is no JSON, or a JSON body that has the field the
\* client reads (has) or not
HttpReply(k, h, t) == [kind |-> k, has |-> h, text |-> t]

Replies ==
    { HttpReply("transport_error", FALSE, <<>>),
      HttpReply("http_error", FALSE, <<>>),
      HttpReply("not_json", FALSE, <<>>),
      HttpReply("json", FALSE, <<>>) }
    \cup { HttpReply("json", TRUE, t) : t \in Responses }

NoReply == HttpReply("none", FALSE, <<>>)

\* the outcomes of the staged and of the unstaged git diff query
Repos ==
    [staged : {PyStr(<<>>), PyStr(Chars_ScenarioDiff), GitError, GitMissing},
     unstaged : {PyStr(<<>>), PyStr(Chars_OtherDiff), GitError}]

NoFzf == [returncode |-> 0, idx |-> 0, stdout |-> <<>>]

\* the value of exit_code while the process runs: it has no exit status yet
NoStatus == -1

\* the harnesses a specification does not use stand still
ParseIdle ==
    /\ p_family = "numbering"
    /\ p_lines = <<>>
    /\ p_pc = "idle"
    /\ p_messages = <<>>

SelIdle ==
    /\ s_messages = <<>>
    /\ s_given = <<>>
    /\ s_use_num = FALSE
    /\ s_pc = "idle"
    /\ s_fzf = NoFzf
    /\ s_result = PyNone

GitIdle ==
    /\ g_repo = [staged |-> PyStr(<<>>), unstaged |-> PyStr(<<>>)]
    /\ g_max_chars = 0
    /\ g_pc = "idle"
    /\ g_queries = <<>>
    /\ g_result = PyNone

RunIdle ==
    /\ repo = [staged |-> PyStr(<<>>), unstaged |-> PyStr(<<>>)]
    /\ client = "ai_service.AIService"
    /\ args_ollama = FALSE
    /\ args_num = FALSE
    /\ pc = "idle"
    /\ diff = <<>>
    /\ commit_messages = <<>>
    /\ selected_message = PyNone
    /\ exit_code = NoStatus
    /\ printed = <<>>
    /\ n_diff = 0
    /\ prompts = <<>>
    /\ reply = NoReply
    /\ attempts = <<>>
    /\ last_set = <<>>
    /\ shown = <<>>
    /\ fzf = NoFzf
    /\ n_regenerate = 0
    /\ commits = <<>>

(***************************************************************************)
(* SelSpec: select_message_with_fzf applied to bounded candidate lists.    *)
(***************************************************************************)
\* candidate texts the parser can produce: plain ones, the empty one (from a
\* line "1."), one that begins with a blank (from a line "1. ' b'")
CandidatePool == { <<"A">>, <<"B">>, <<>>, <<" ", "b">> }

CandidateLists ==
    UNION { [1..n -> CandidatePool] : n \in 1..MaxCands }

SelInit ==
    /\ ParseIdle
    /\ RunIdle
    /\ GitIdle
    /\ s_messages \in CandidateLists
    /\ s_given = s_messages
    /\ s_use_num \in BOOLEAN
    /\ s_pc = "ready"
    /\ s_fzf = NoFzf
    /\ s_result = PyNone

CallSelect ==
    /\ s_pc = "ready"
    /\ LET visible == VisibleList(s_messages, s_use_num)
       IN  /\ s_messages' = visible
           /\ \E o \in FzfOutcomes(visible) :
                /\ s_fzf' = o
                /\ s_result' = SelectionOf(s_use_num, o.returncode, o.stdout)
    /\ s_pc' = "done"
    /\ UNCHANGED <<s_use_num, s_given, parseVars, runVars, gitVars>>

SelNext == CallSelect

SelSpec == SelInit /\ [][SelNext]_vars

\* the chooser returned the line of the regenerate entry (the last line)
PickedRegenerate ==
    /\ s_pc = "done"
    /\ s_fzf.returncode # CancelExitCode
    /\ s_fzf.idx = Len(s_messages)

\* C3: whenever the chooser returns the line of the regenerate entry, the
\* call returns "regenerate", for every number of candidates, in plain and
\* in numeric mode.
C3_RegenerateEntry ==
    PickedRegenerate => s_result = PyStr(Chars_regenerate)

\* C4: for what the chooser returns other than the regenerate entry: exit
\* status 130 gives None whatever stdout holds; an empty trimmed stdout gives
\* a result that counts as cancelled (None or ""); any other line gives that
\* line as a str, trimmed and, in numeric mode, without its "N. " label.
C4_OutcomeMapping ==
    (s_pc = "done" /\ ~PickedRegenerate) =>
        LET selected == Strip(s_fzf.stdout)
        IN  /\ s_fzf.returncode = CancelExitCode => s_result = PyNone
            /\ (s_fzf.returncode # CancelExitCode /\ selected = <<>>)
                   => s_result \in {PyNone, PyStr(<<>>)}
            /\ (s_fzf.returncode # CancelExitCode /\ selected # <<>>)
                   => /\ s_result.t = "str"
                      /\ selected =
                           (IF s_use_num
                            THEN IntToStr(s_fzf.idx) \o <<".", " ">>
                            ELSE <<>>) \o s_result.v

(***************************************************************************)
(* ParseSpec: parse_commit_messages applied to bounded response texts.     *)
(* A response is assembled line by line from one of two families of lines; *)
(* every line records what it is (kind) and the candidate the              *)
(* specification says it yields (text).                                    *)
(***************************************************************************)
Chars_FixBug == <<"F", "i", "x", " ", "b", "u", "g">>
Chars_FixQuotedBug ==
    <<"F", "i", "x", " ", "'", "q", "u", "o", "t", "e", "d", "'", " ",
      "b", "u", "g">>

Line(l, k, t) == [line |-> l, kind |-> k, text |-> t]

\* lines no candidate is to be extracted from
NoiseLines ==
    { Line(<<>>, "noise", <<>>),
      Line(<<"n", "o", "t", "e">>, "noise", <<>>),
      Line(<<"1", "0", ".", " ", "x">>, "noise", <<>>),
      Line(<<"1", ")", " ", "x">>, "noise", <<>>),
      Line(<<"4", ".", " ", "x">>, "noise", <<>>) }

\* "1. A", "2. B", "3. C"
WellFormedLines ==
    { Line(<<"1", ".", " ", "A">>, "wf1", <<"A">>),
      Line(<<"2", ".", " ", "B">>, "wf2", <<"B">>),
      Line(<<"3", ".", " ", "C">>, "wf3", <<"C">>) }

NumberingFamily ==
    NoiseLines \cup WellFormedLines
    \cup { Line(<<"\t", "2", ".", "B", " ", "\r">>, "numbered", <<"B">>) }

QuotingFamily ==
    { Line(<<"1", ".", " ", "'">> \o Chars_FixBug \o <<"'">>,
           "numbered", Chars_FixBug),
      Line(<<"1", ".", " ">> \o Chars_FixQuotedBug,
           "numbered", Chars_FixQuotedBug),
      Line(<<"2", ".", " ", "'", "a">>, "numbered", <<"'", "a">>),
      Line(<<"3", ".", " ", "'">>, "numbered", <<"'">>),
      Line(<<"3", ".", "'", "'">>, "numbered", <<>>),
      Line(<<"1", ".">>, "numbered", <<>>),
      Line(<<"n", "o", "t", "e">>, "noise", <<>>) }

Families == [numbering |-> NumberingFamily, quoting |-> QuotingFamily]

\* the response text: the lines joined by newlines
ResponseText(lines) == Join([i \in 1..Len(lines) |-> lines[i].line], <<"\n">>)

ParseInit ==
    /\ SelIdle
    /\ RunIdle
    /\ GitIdle
    /\ p_family \in DOMAIN Families
    /\ p_lines = <<>>
    /\ p_pc = "build"
    /\ p_messages = <<>>

AddLine ==
    /\ p_pc = "build"
    /\ Len(p_lines) < MaxLines
    /\ \E e \in Families[p_family] : p_lines' = Append(p_lines, e)
    /\ UNCHANGED <<p_family, p_pc, p_messages, selVars, runVars, gitVars>>

Parse ==
    /\ p_pc = "build"
    /\ p_messages' = parse_commit_messages(ResponseText(p_lines))
    /\ p_pc' = "parsed"
    /\ UNCHANGED <<p_family, p_lines, selVars, runVars, gitVars>>

ParseNext == AddLine \/ Parse

ParseSpec == ParseInit /\ [][ParseNext]_vars

\* the lines of the response that are not noise, in order
NumberedLines == SelectSeq(p_lines, LAMBDA e : e.kind # "noise")

\* t occurs in s as a contiguous piece
IsPieceOf(t, s) ==
    \E i \in 1..(Len(s) + 1) :
        i + Len(t) - 1 <= Len(s) /\ SubSeq(s, i, i + Len(t) - 1) = t

\* C7: a response whose lines, noise lines apart, are "1. A", "2. B", "3. C"
\* in that order parses to exactly <<"A", "B", "C">>, wherever the noise
\* lines stand.
C7_WellFormedParse ==
    (/\ p_pc = "parsed"
     /\ [i \in 1..Len(NumberedLines) |-> NumberedLines[i].kind]
            = <<"wf1", "wf2", "wf3">>)
        => p_messages = <<<<"A">>, <<"B">>, <<"C">>>>

\* C7 witness: the three lines parsed with a noise line between two of them
C7_Witness ==
    /\ p_pc = "parsed"
    /\ [i \in 1..Len(NumberedLines) |-> NumberedLines[i].kind]
            = <<"wf1", "wf2", "wf3">>
    /\ \E i \in 2..(Len(p_lines) - 1) : p_lines[i].kind = "noise"
    /\ p_messages = <<<<"A">>, <<"B">>, <<"C">>>>

\* C8: the result has one entry for every line that, trimmed, begins with
\* "1.", "2." or "3." and none for any other line ("10.", "1)", "4.", blank,
\* unprefixed); the entries stand in the order of their lines, a repeated
\* line giving a repeated entry.
C8_PrefixAcceptance ==
    p_pc = "parsed" =>
        /\ Len(p_messages) = Len(NumberedLines)
        /\ \A i \in 1..Len(NumberedLines) :
                IsPieceOf(p_messages[i], NumberedLines[i].line)

\* C8 witness: a parsed response with a repeated accepted line, a rejected
\* "10." line and a rejected "1)" line
C8_Witness ==
    /\ p_pc = "parsed"
    /\ \E i, j \in 1..Len(p_lines) :
            i < j /\ p_lines[i] = p_lines[j] /\ p_lines[i].kind # "noise"
    /\ \E i \in 1..Len(p_lines) : StartsWith(p_lines[i].line, <<"1", "0">>)
    /\ \E i \in 1..Len(p_lines) : StartsWith(p_lines[i].line, <<"1", ")">>)
    /\ Len(p_messages) = 2
    /\ p_messages[1] = p_messages[2]

\* C9: every accepted line yields the text after its prefix, trimmed, with
\* one leading and one trailing quote removed exactly when the text is
\* wrapped in a pair of quotes, and unchanged otherwise (text is that
\* candidate, written out per line).
C9_QuoteStripping ==
    p_pc = "parsed" =>
        p_messages = [i \in 1..Len(NumberedLines) |-> NumberedLines[i].text]

(***************************************************************************)
(* DiffSpec: one call of get_git_diff (commit_generator.py 11-45)          *)
(***************************************************************************)
\* the characters and the length of the texts a git diff query prints
DiffAlphabet == {"+", "-"}
DiffTexts == UNION {[1..n -> DiffAlphabet] : n \in 0..MaxDiffLen}

\* a query prints a text, ends with an error status, or cannot be started
QueryOutcomes == {PyStr(t) : t \in DiffTexts} \cup {GitError, GitMissing}

DiffInit ==
    /\ ParseIdle
    /\ SelIdle
    /\ RunIdle
    /\ g_repo \in [staged : QueryOutcomes, unstaged : QueryOutcomes]
    /\ g_max_chars \in -1..MaxDiffChars
    /\ g_pc = "ready"
    /\ g_queries = <<>>
    /\ g_result = PyNone

\* the call get_git_diff(max_chars)
CallGetGitDiff ==
    /\ g_pc = "ready"
    /\ g_queries' = GitQueries(g_repo)
    /\ g_result' = get_git_diff(g_repo, g_max_chars)
    /\ g_pc' = "done"
    /\ UNCHANGED <<g_repo, g_max_chars, parseVars, selVars, runVars>>

DiffNext == CallGetGitDiff

DiffSpec == DiffInit /\ [][DiffNext]_vars

\* a query that did not print a diff
QueryFailed(q) == q \in {GitError, GitMissing}

\* the first n characters of text, the whole text when it has no more
FirstChars(text, n) ==
    [i \in 1..(IF Len(text) > n THEN n ELSE Len(text)) |-> text[i]]

\* the status the process ends with when the call ends by raising:
\* sys.exit(1) (line 45), or an exception nothing catches
StatusOfRaise(result) ==
    IF result.t \in {"SystemExit", "FileNotFoundError"} THEN 1 ELSE 0

\* C13: get_git_diff returns the staged diff when it is non-empty, whatever
\* the unstaged diff, and asks for the unstaged diff (and returns it) only
\* when the staged diff is empty; for a size bound max_chars >= 0 the
\* result is the first max_chars characters of a longer diff and the whole
\* of a shorter one; when a query that is made fails the call does not
\* return and the process ends with a non-zero status.
C13_DiffSource ==
    g_pc = "done" =>
        LET staged == g_repo.staged
            unstaged == g_repo.unstaged
        IN  /\ (staged.t = "str" /\ staged.v # <<>>) =>
                  /\ g_queries = << "--cached" >>
                  /\ g_max_chars >= 0 =>
                        g_result = PyStr(FirstChars(staged.v, g_max_chars))
            /\ staged = PyStr(<<>>) =>
                  /\ g_queries = << "--cached", "" >>
                  /\ (unstaged.t = "str" /\ g_max_chars >= 0) =>
                        g_result = PyStr(FirstChars(unstaged.v, g_max_chars))
            /\ g_queries # << "--cached" >> => staged = PyStr(<<>>)
            /\ (QueryFailed(staged)
                   \/ (staged = PyStr(<<>>) /\ QueryFailed(unstaged))) =>
                  /\ g_result.t \notin {"str", "None"}
                  /\ StatusOfRaise(g_result) # 0

\* a staged diff longer than the bound, with unstaged changes beside it
C13_Witness ==
    /\ g_pc = "done"
    /\ g_repo.staged.t = "str"
    /\ g_repo.unstaged.t = "str"
    /\ g_repo.unstaged.v # <<>>
    /\ g_max_chars >= 1
    /\ Len(g_repo.staged.v) > g_max_chars
    /\ Len(g_result.v) = g_max_chars

(***************************************************************************)
(* Spec: one run of main() (cli.py 16-118)                                 *)
(***************************************************************************)
\* cli.py 41: the default of --max_chars
DefaultMaxChars == 75

\* cli.py 56
ServiceType == IF args_ollama THEN "ollama" ELSE "jan"

\* cli.py 89: selected_message == "regenerate"
IsRegenerate(selected) == selected = PyStr(Chars_regenerate)

\* mutant: "is not None" in place of the truth value
IsNotNone(selected) == selected # PyNone

\* cli.py 113: the truth value of selected_message
Truthy(selected) == selected # PyNone /\ selected.v # <<>>

\* mutant: the new list is added to the one in hand
ExtendedInPlace(old, new) == old \o new

\* cli.py 57, 93: commit_messages = generate_commit_messages(...) binds the
\* name to the new list
Assigned(old, new) == new

\* mutant: the check for an empty list is left out
NeverEmpty(messages) == FALSE

\* cli.py 79, 110: not commit_messages
NoMessages(messages) == messages = <<>>

\* mutant: the process exits with status 0 whatever the failure
ExitWithZero(code, line) ==
    /\ pc' = "exit"
    /\ exit_code' = 0
    /\ printed' = Append(printed, line)

\* sys.exit(code) after printing line
Exit(code, line) ==
    /\ pc' = "exit"
    /\ exit_code' = code
    /\ printed' = Append(printed, line)

Init ==
    /\ ParseIdle
    /\ SelIdle
    /\ GitIdle
    /\ repo \in Repos
    /\ client \in {"ai_service.AIService", "ModelClient"}
    /\ args_ollama \in BOOLEAN
    /\ args_num \in BOOLEAN
    /\ pc = "start"
    /\ diff = <<>>
    /\ commit_messages = <<>>
    /\ selected_message = PyNone
    /\ exit_code = NoStatus
    /\ printed = <<>>
    /\ n_diff = 0
    /\ prompts = <<>>
    /\ reply = NoReply
    /\ attempts = <<>>
    /\ last_set = <<>>
    /\ shown = <<>>
    /\ fzf = NoFzf
    /\ n_regenerate = 0
    /\ commits = <<>>

\* mutant: the check for an empty diff is left out
NeverNoDiff(d) == FALSE

\* cli.py 51: "if not diff", true of the empty string only
NoDiff(d) == d = <<>>

\* cli.py 49-53
GetDiff ==
    /\ pc = "start"
    /\ n_diff' = n_diff + 1
    /\ LET d == get_git_diff(repo, DefaultDiffMaxChars)
       IN  IF d.t = "SystemExit"
           THEN /\ Exit(1, "Error: Not a git repository or git is not installed.")
                /\ UNCHANGED diff
           ELSE IF d.t = "FileNotFoundError"
           THEN /\ Exit(1, "FileNotFoundError")
                /\ UNCHANGED diff
           ELSE /\ diff' = d.v
                /\ IF NoDiff(d.v)
                   THEN Exit(0, "No changes to commit.")
                   ELSE /\ pc' = "generate"
                        /\ UNCHANGED <<exit_code, printed>>
    /\ UNCHANGED <<commit_messages, selected_message, prompts, reply, attempts,
                   last_set, shown, fzf, n_regenerate, commits>>
    /\ UNCHANGED <<envVars, parseVars, selVars, gitVars>>

\* cli.py 57-63 with 79-81, and 93-99 with 110-112: one generation attempt,
\* the backend replying r to the request if one is posted
Generation(r) ==
    LET g == generate_commit_messages(client, ServiceType, r)
    IN  /\ reply' = r
        /\ prompts' = IF g.posted
                      THEN Append(prompts, Prompt(diff, DefaultMaxChars))
                      ELSE prompts
        /\ IF g.result.t = "SystemExit"
           THEN /\ Exit(1, "Error querying")
                /\ attempts' = Append(attempts, [exit |-> TRUE, size |-> 0])
                /\ UNCHANGED <<commit_messages, last_set>>
           ELSE /\ commit_messages' = Assigned(commit_messages, g.result.v)
                /\ last_set' = g.result.v
                /\ attempts' = Append(attempts,
                                      [exit |-> FALSE, size |-> Len(g.result.v)])
                /\ IF NoMessages(commit_messages')
                   THEN Exit(1, "Error: Could not generate commit messages.")
                   ELSE /\ pc' = "select"
                        /\ UNCHANGED <<exit_code, printed>>
        /\ UNCHANGED <<diff, selected_message, n_diff, shown, fzf,
                       n_regenerate, commits>>
        /\ UNCHANGED <<envVars, parseVars, selVars, gitVars>>

\* cli.py 55-81
GenerateInitial ==
    /\ pc = "generate"
    /\ \E r \in Replies : Generation(r)

\* cli.py 85-87: the call changes main's list in place; an exception other
\* than CalledProcessError leaves select_message_with_fzf and main
Select ==
    /\ pc = "select"
    /\ LET visible == VisibleList(commit_messages, args_num)
       IN  /\ commit_messages' = visible
           /\ shown' = visible
           /\ \E o \in FzfOutcomes(visible) :
                LET res == SelectionOf(args_num, o.returncode, o.stdout)
                IN  /\ fzf' = o
                    /\ IF res.t = "IndexError"
                       THEN /\ Exit(1, "IndexError")
                            /\ UNCHANGED <<selected_message, n_regenerate>>
                       ELSE /\ selected_message' = res
                            /\ pc' = "branch"
                            /\ n_regenerate' =
                                 n_regenerate
                                 + (IF res = PyStr(Chars_regenerate) THEN 1 ELSE 0)
                            /\ UNCHANGED <<exit_code, printed>>
    /\ UNCHANGED <<diff, n_diff, prompts, reply, attempts, last_set, commits>>
    /\ UNCHANGED <<envVars, parseVars, selVars, gitVars>>

\* cli.py 89-112
Regenerate ==
    /\ pc = "branch"
    /\ IsRegenerate(selected_message)
    /\ Len(attempts) < MaxQueries
    /\ \E r \in Replies : Generation(r)

\* the statuses "git commit" ends with: done, or refused (nothing staged, a
\* hook that fails, ...)
GitCommitStatuses == {0, 1}

\* mutant: no except clause, CalledProcessError leaves the call
create_commit_raising(status) ==
    IF status = 0
    THEN [raised |-> "", value |-> TRUE, line |-> "Committed with message"]
    ELSE [raised |-> "CalledProcessError", value |-> FALSE, line |-> ""]

\* commit_generator.py 221-229: what the call returns and prints, given the
\* status of "git commit"; check=True turns a non-zero status into
\* CalledProcessError, which the except clause turns into False
create_commit(status) ==
    IF status = 0
    THEN [raised |-> "", value |-> TRUE, line |-> "Committed with message"]
    ELSE [raised |-> "", value |-> FALSE,
          line |-> "Error: Failed to create commit."]

\* cli.py 113-115: the result of create_commit is not looked at with create_commit (commit_generator.py 208-229): git
\* commit succeeds or fails, main returns either way
Commit ==
    /\ pc = "branch"
    /\ ~IsRegenerate(selected_message)
    /\ Truthy(selected_message)
    /\ commits' = Append(commits, selected_message.v)
    /\ \E status \in GitCommitStatuses :
         LET c == create_commit(status)
         IN  IF c.raised # "" THEN Exit(1, c.raised) ELSE Exit(0, c.line)
    /\ UNCHANGED <<diff, commit_messages, selected_message, n_diff, prompts,
                   reply, attempts, last_set, shown, fzf, n_regenerate>>
    /\ UNCHANGED <<envVars, parseVars, selVars, gitVars>>

\* mutant: the break of the else branch is left out
RejectAndAsk ==
    /\ pc = "branch"
    /\ ~IsRegenerate(selected_message)
    /\ ~Truthy(selected_message)
    /\ pc' = "select"
    /\ UNCHANGED <<diff, commit_messages, selected_message, exit_code, printed,
                   n_diff, prompts, reply, attempts, last_set, shown, fzf,
                   n_regenerate, commits>>
    /\ UNCHANGED <<envVars, parseVars, selVars, gitVars>>

\* cli.py 116-118
Reject ==
    /\ pc = "branch"
    /\ ~IsRegenerate(selected_message)
    /\ ~Truthy(selected_message)
    /\ Exit(0, "Commit messages rejected. Please create commit message manually.")
    /\ UNCHANGED <<diff, commit_messages, selected_message, n_diff, prompts,
                   reply, attempts, last_set, shown, fzf, n_regenerate, commits>>
    /\ UNCHANGED <<envVars, parseVars, selVars, gitVars>>

Next == GetDiff \/ GenerateInitial \/ Select \/ Regenerate \/ Commit \/ Reject

Spec == Init /\ [][Next]_vars

\* main is one sequential thread: as long as each external call returns, the
\* statement that is next is executed
FairSpec == Spec /\ WF_vars(Next)

(***************************************************************************)
(* Properties of a run                                                     *)
(***************************************************************************)
\* the selector's last outcome, read off the value it returned
OutcomeRegenerate == selected_message = PyStr(Chars_regenerate)
OutcomeChosen ==
    /\ selected_message.t = "str"
    /\ selected_message.v \notin {<<>>, Chars_regenerate}

\* the selector has just returned
JustSelected == pc = "branch"

\* the selector has just returned or raised
JustInvoked ==
    \/ JustSelected
    \/ pc = "exit" /\ printed # <<>> /\ printed[Len(printed)] = "IndexError"

\* the run ended by the commit or the rejection that follows a selection
EndedBySelection == pc = "exit" /\ exit_code = 0 /\ diff # <<>>

\* the numeric label of visible line i ("" in plain mode)
NumLabel(i) == IF args_num THEN IntToStr(i) \o <<".", " ">> ELSE <<>>

Scenario ==
    /\ diff # <<>>
    /\ Len(attempts) = 1
    /\ reply = HttpReply("json", TRUE, Chars_ScenarioResponse)

\* C2: in the scenario the run reaches the selector with a CandidateSet of 3
\* entries, and with entry 2 selected it calls create_commit with exactly
\* "Introduce debug output" and ends.
C2_EndToEnd ==
    Scenario =>
        /\ pc \in {"select", "branch", "exit"}
        /\ last_set = <<Chars_AddPrintStatement, Chars_IntroduceDebugOutput,
                        Chars_InsertPrintCall>>
        /\ (pc = "select" => commit_messages = last_set)
        /\ (pc = "exit" => shown # <<>>)
        /\ (pc = "exit" /\ fzf.returncode = 0 /\ fzf.idx = 2)
              => (commits = <<Chars_IntroduceDebugOutput>> /\ exit_code = 0)

BackendFailed ==
    /\ Len(attempts) >= 1
    /\ Len(prompts) = Len(attempts)
    /\ \/ reply.kind \in {"transport_error", "http_error", "not_json"}
       \/ reply.kind = "json" /\ ~reply.has /\ ~args_ollama

NothingToCommit == repo.staged = PyStr(<<>>) /\ repo.unstaged = PyStr(<<>>)

\* C12: a run whose diff is empty ends at once with status 0 and the line
\* "No changes to commit.": the diff was read once, no prompt was sent to a
\* model, no generation attempt was made, the selector never ran and nothing
\* was committed.
C12_EmptyDiffNoOp ==
    (NothingToCommit /\ pc # "start") =>
        /\ pc = "exit"
        /\ exit_code = 0
        /\ printed = << "No changes to commit." >>
        /\ n_diff = 1
        /\ diff = <<>>
        /\ prompts = <<>>
        /\ attempts = <<>>
        /\ shown = <<>>
        /\ n_regenerate = 0
        /\ commits = <<>>

C12_Witness ==
    /\ NothingToCommit
    /\ pc = "exit"
    /\ printed = << "No changes to commit." >>

\* the lines create_commit prints
CommitLines == {"Committed with message", "Error: Failed to create commit."}

DiffQueryFails ==
    \/ QueryFailed(repo.staged)
    \/ repo.staged = PyStr(<<>>) /\ QueryFailed(repo.unstaged)

\* the last generation attempt ended in the client: by the constructor, or
\* by the request
ServiceErrorLast ==
    /\ attempts # <<>>
    /\ \/ BackendFailed
       \/ Len(prompts) < Len(attempts)

\* the last generation attempt gave an empty CandidateSet
EmptySetLast ==
    /\ attempts # <<>>
    /\ ~ServiceErrorLast
    /\ last_set = <<>>

PassedToCommit(selected) == ~IsRegenerate(selected) /\ Truthy(selected)

\* C16: whatever select_message_with_fzf returns that main passes to
\* create_commit is the text of one of the candidates the selector was
\* called with; it is not the "Regenerate messages" entry and not a line of
\* the visible list with its numeric label, in plain and in numeric mode and
\* for every number of candidates.
C16_CommittedIsCandidate ==
    (s_pc = "done" /\ s_result.t \in {"None", "str"}
       /\ PassedToCommit(s_result)) =>
        /\ \E i \in 1..Len(s_given) : s_given[i] = s_result.v
        /\ s_fzf.idx # Len(s_messages)
        /\ s_use_num => \A i \in 1..Len(s_messages) :
                           s_messages[i] # s_result.v

\* C17: a call of select_message_with_fzf with a non-empty candidate list
\* returns, whatever line of the visible list the chooser gives back: a
\* message or "regenerate" (a str), or cancelled (None); it does not end by
\* an exception, in plain and in numeric mode, empty candidates included.
C17_SelectorReturns ==
    s_pc = "done" => s_result.t \in {"None", "str"}

\* the outcomes a run can end in
Committed == commits # <<>>
Aborted ==
    /\ printed # <<>>
    /\ printed[Len(printed)] =
         "Commit messages rejected. Please create commit message manually."
FatalExit == exit_code # 0
NoOpExit == exit_code = 0 /\ diff = <<>>

OutcomeCancelled == selected_message \in {PyNone, PyStr(<<>>)}

\* the user has chosen Regenerate as often as the model follows a run
StillRegenerating ==
    JustSelected /\ OutcomeRegenerate /\ Len(attempts) = MaxQueries

====
